---------------------------- MODULE Spec2Model ----------------------------
(***************************************************************************)
(* Model of notify.py: the host-range expander (parse_dash, parse_nodes)   *)
(* and the instance enrichment pass (populate_instances_details).          *)
(*                                                                         *)
(* A Python str is modelled as a sequence of one-character strings, so     *)
(* that splitting, searching, int() and "%s" formatting are computed       *)
(* character by character as the interpreter computes them.                *)
(***************************************************************************)
EXTENDS Integers, Sequences, FiniteSets, TLC

(***************************************************************************)
(* Bounds of the model.                                                    *)
(***************************************************************************)
\* longest raw input string of parse_nodes that is enumerated exhaustively
MaxLen == 4
\* numbers used in generated bracket specs are 0, NumStep, .., MaxNum*NumStep
MaxNum == 2
NumStep == 5
\* most pieces in a generated comma list
MaxPieces == 3

(***************************************************************************)
(* Characters and strings.                                                 *)
(***************************************************************************)
DigitChars == <<"0", "1", "2", "3", "4", "5", "6", "7", "8", "9">>

Digits == {DigitChars[i] : i \in 1..10}

\* the whitespace the model's alphabet contains (matched by \s, stripped by int)
Space == {" "}

Brackets == {"[", "]"}

DigitVal(c) == (CHOOSE i \in 1..10 : DigitChars[i] = c) - 1

\* index of the first element of s at or after from that is in cs; 0 if none
FirstIdx(s, cs, from) ==
  LET I == {i \in from..Len(s) : s[i] \in cs}
  IN  IF I = {} THEN 0 ELSE CHOOSE i \in I : \A j \in I : i <= j

Slice(s, a, b) == IF a > b THEN <<>> ELSE SubSeq(s, a, b)

\* str(n) for an int n >= 0, as "%s" renders it
RECURSIVE Str(_)
Str(n) == IF n < 10 THEN <<DigitChars[n + 1]>>
          ELSE Str(n \div 10) \o <<DigitChars[(n % 10) + 1]>>

\* s.strip() as int() applies it to its argument
Strip(s) ==
  LET I == {i \in 1..Len(s) : s[i] \notin Space}
  IN  IF I = {} THEN <<>>
      ELSE Slice(s, CHOOSE i \in I : \A j \in I : i <= j,
                    CHOOSE i \in I : \A j \in I : i >= j)

\* int(s) returns a value (otherwise it raises ValueError)
IntOk(s) ==
  LET t == Strip(s) IN Len(t) > 0 /\ \A i \in 1..Len(t) : t[i] \in Digits

RECURSIVE DigitsVal(_)
DigitsVal(t) == IF Len(t) = 0 THEN 0
                ELSE 10 * DigitsVal(Slice(t, 1, Len(t) - 1)) + DigitVal(t[Len(t)])

\* int(s), for IntOk(s)
IntVal(s) == DigitsVal(Strip(s))

(***************************************************************************)
(* parse_dash                                                              *)
(***************************************************************************)
\* range_str.split("-"): the pieces between the dashes, in order
RECURSIVE SplitDash(_)
SplitDash(s) ==
  LET k == FirstIdx(s, {"-"}, 1)
  IN  IF k = 0 THEN <<s>>
      ELSE <<Slice(s, 1, k - 1)>> \o SplitDash(Slice(s, k + 1, Len(s)))

IntItem(n) == [t |-> "int", v |-> n, s |-> <<>>]

StrItem(x) == [t |-> "str", v |-> 0, s |-> x]

\* the else branch of parse_dash: the piece itself, as the str it is
parse_dash_single(range_str) == {StrItem(range_str)}

\* parse_dash raises ValueError (int() of a bound that is not a number)
parse_dash_raises(range_str) ==
  LET hosts == SplitDash(range_str)
  IN  Len(hosts) > 1 /\ (~IntOk(hosts[1]) \/ ~IntOk(hosts[2]))

\* parse_dash_range without the + 1 on the upper bound
parse_dash_range_Exclusive(lo, hi) == {IntItem(v) : v \in lo..(hi - 1)}

\* the range(...) branch of parse_dash: ints lo .. hi, both included
parse_dash_range(lo, hi) == {IntItem(v) : v \in lo..hi}

\* the items parse_dash returns, for ~parse_dash_raises(range_str)
parse_dash(range_str) ==
  LET hosts == SplitDash(range_str)
  IN  IF Len(hosts) > 1
      THEN parse_dash_range(IntVal(hosts[1]), IntVal(hosts[2]))
      ELSE parse_dash_single(range_str)

\* "%s" % host
FormatS(item) == IF item.t = "int" THEN Str(item.v) ELSE item.s

(***************************************************************************)
(* parse_nodes                                                             *)
(***************************************************************************)
\* LookaheadOk without the lookahead: every comma splits
LookaheadOk_EveryComma(s, k) == TRUE

\* the lookahead (?![^\[\]]*\]) succeeds after position k: the first
\* bracket character after k is not "]"
LookaheadOk(s, k) ==
  LET b == FirstIdx(s, Brackets, k + 1)
  IN  b = 0 \/ s[b] # "]"

\* index of the first character after position k that \s* does not consume
SkipSpace(s, k) ==
  LET I == {i \in (k + 1)..Len(s) : s[i] \notin Space}
  IN  IF I = {} THEN Len(s) + 1 ELSE CHOOSE i \in I : \A j \in I : i <= j

\* index of the first comma at or after from at which the pattern matches
FirstSplit(s, from) ==
  LET I == {i \in from..Len(s) : s[i] = "," /\ LookaheadOk(s, i)}
  IN  IF I = {} THEN 0 ELSE CHOOSE i \in I : \A j \in I : i <= j

\* re.split(r",\s*(?![^\[\]]*\])", s)
RECURSIVE re_split(_)
re_split(s) ==
  LET k == FirstSplit(s, 1)
  IN  IF k = 0 THEN <<s>>
      ELSE <<Slice(s, 1, k - 1)>> \o re_split(Slice(s, SkipSpace(s, k), Len(s)))

\* re.search(r"(.*?)\[(.*?)\](.*)", s): the first "[" and the first "]"
\* after it
re_search(s) ==
  LET p == FirstIdx(s, {"["}, 1)
      q == IF p = 0 THEN 0 ELSE FirstIdx(s, {"]"}, p + 1)
  IN  IF q = 0 THEN [matched |-> FALSE, g1 |-> <<>>, g2 |-> <<>>, g3 |-> <<>>]
      ELSE [matched |-> TRUE,
            g1 |-> Slice(s, 1, p - 1),
            g2 |-> Slice(s, p + 1, q - 1),
            g3 |-> Slice(s, q + 1, Len(s))]

Returned(kind, hosts) == [exc |-> "None", kind |-> kind, hosts |-> hosts]

Raised(exc) == [exc |-> exc, kind |-> "none", hosts |-> {}]

\* parse_literal that strips the expression
parse_literal_Stripped(expr) == Returned("list", {Strip(expr)})

\* what parse_nodes does with an expression that has no bracket pair
\* (the implicit else of `if match`): nodes stays the one-element list
parse_literal(expr) == Returned("list", {expr})

RECURSIVE parse_nodes(_)
parse_nodes(nodes) ==
  LET pieces == re_split(nodes)
  IN  IF Len(pieces) > 1
      THEN LET rs == {parse_nodes(pieces[i]) : i \in 1..Len(pieces)}
           IN  IF \E r \in rs : r.exc # "None"
               THEN Raised("ValueError")
               ELSE Returned("set", UNION {r.hosts : r \in rs})
      ELSE LET match == re_search(pieces[1])
           IN  IF match.matched
               THEN LET inner == parse_nodes(match.g2)
                    IN  IF inner.exc # "None" THEN Raised("ValueError")
                        ELSE IF \E h \in inner.hosts : parse_dash_raises(h)
                        THEN Raised("ValueError")
                        ELSE Returned("set",
                               {match.g1 \o FormatS(host) \o match.g3 :
                                  host \in UNION {parse_dash(h) : h \in inner.hosts}})
               ELSE parse_literal(pieces[1])

(***************************************************************************)
(* Inputs of parse_nodes: every string of at most MaxLen characters over   *)
(* RawChars, generated bracket expressions and comma lists, and the        *)
(* expressions the documentation names.                                    *)
(***************************************************************************)
RawChars == {"a", "0", "1", "-", ",", "[", "]", " "}

SeqsUpTo(S, n) == UNION {[1..k -> S] : k \in 0..n}

RawStrings == SeqsUpTo(RawChars, MaxLen)

Nums == {n * NumStep : n \in 0..MaxNum}

\* a number written plainly and written with one leading zero
Numerals == UNION {{Str(n), <<"0">> \o Str(n)} : n \in Nums}

DashRanges == {lo \o <<"-">> \o hi : lo \in Numerals, hi \in Numerals}

Items == Numerals \cup DashRanges

BracketSpecs == Items \cup {x \o <<",">> \o y : x \in Items, y \in Items}

Prefixes == {<<>>, <<"a">>, <<"r", "-">>}

Suffixes == {<<>>, <<"b">>}

BracketExpr(prefix, spec, suffix) == prefix \o <<"[">> \o spec \o <<"]">> \o suffix

BracketExprs ==
  {BracketExpr(p, sp, sf) : p \in Prefixes, sp \in BracketSpecs, sf \in Suffixes}

ListPieces ==
  {<<"a">>, <<"r", "-", "5">>}
    \cup {BracketExpr(<<"a">>, Str(g[1]) \o <<",">> \o Str(g[2]), <<>>) :
            g \in {h \in Nums \X Nums : h[1] < h[2]}}

Separators == {<<",">>, <<",", " ">>}

RECURSIVE Join(_, _)
Join(ps, sep) == IF Len(ps) = 0 THEN <<>>
                 ELSE IF Len(ps) = 1 THEN ps[1]
                 ELSE ps[1] \o sep \o Join(Tail(ps), sep)

ListExprs ==
  {Join(ps, sep) : ps \in UNION {[1..k -> ListPieces] : k \in 2..MaxPieces},
                   sep \in Separators}

Doc_rcc == <<"q", "h", "2", "-", "r", "c", "c">>

\* "qh2-rcc[10-12]"
Doc_range == BracketExpr(Doc_rcc, <<"1", "0", "-", "1", "2">>, <<>>)

\* "qh2-rcc[01-03,07]"
Doc_padded == BracketExpr(Doc_rcc, <<"0", "1", "-", "0", "3", ",", "0", "7">>, <<>>)

\* "qh2-rcc5,qh2-rcc6"
Doc_list == Doc_rcc \o <<"5", ",">> \o Doc_rcc \o <<"6">>

\* "a[1,3],b"
Doc_mixed == <<"a", "[", "1", ",", "3", "]", ",", "b">>

\* "qh2-rcc[10-"
Doc_malformed == Doc_rcc \o <<"[", "1", "0", "-">>

DocExprs == {Doc_range, Doc_padded, Doc_list, Doc_mixed, Doc_malformed}

Expressions == RawStrings \cup BracketExprs \cup ListExprs \cup DocExprs

(***************************************************************************)
(* Inputs of populate_instances_details.                                   *)
(***************************************************************************)
\* most instances the input generator yields
MaxInstances == 3
\* most role assignments on one project
MaxAssignments == 2

\* the tenant ids and the user ids the identity service knows
Tenants == {"t1", "t2"}

UserIds == {"u1", "u2", "u3"}

(***************************************************************************)
(* State.                                                                  *)
(***************************************************************************)
VARIABLES
  nodes,          \* the argument of parse_nodes (--hosts)
  hosts,          \* what parse_nodes returned or raised (args.hosts)
  xpc,            \* "idle" | "start" | "returned" | "raised"
  instances,      \* the input: tenant_id of the k-th instance yielded
  ks_assignments, \* identity service: role assignments (user ids) of a project
  pc,             \* position in populate_instances_details
  idx,            \* index of the instance the for loop is at
  users,          \* dict users: user id -> User object
  projects,       \* dict projects: tenant_id -> Project object
  servers,        \* list servers
  project_users,  \* list project_users
  assignments,    \* the role assignments being iterated, and the position
  proj_servers,   \* Project object -> its .servers
  proj_users,     \* Project object -> its .users
  server_project, \* instance -> its .project
  server_users,   \* instance -> its .users
  next_obj,       \* the next object the identity client creates
  calls,          \* identity-service calls made so far, in order
  result          \* what populate_instances_details returned

xvars == <<nodes, hosts, xpc>>

evars == <<instances, ks_assignments, pc, idx, users, projects, servers,
           project_users, assignments, proj_servers, proj_users,
           server_project, server_users, next_obj, calls, result>>

vars == <<xvars, evars>>

NotParsed == [exc |-> "None", kind |-> "none", hosts |-> {}]

NoResult == [returned |-> FALSE, value |-> <<>>]

EmptyMap == [x \in {} |-> 0]

\* d[k] = v on a dict
DictSet(d, k, v) == [x \in DOMAIN d \cup {k} |-> IF x = k THEN v ELSE d[x]]

ExpandIdle == nodes = <<>> /\ hosts = NotParsed /\ xpc = "idle"

EnrichStart(insts, asg) ==
  /\ instances = insts
  /\ ks_assignments = asg
  /\ idx = 1
  /\ users = EmptyMap
  /\ projects = EmptyMap
  /\ servers = <<>>
  /\ project_users = <<>>
  /\ assignments = [list |-> <<>>, pos |-> 1]
  /\ proj_servers = EmptyMap
  /\ proj_users = EmptyMap
  /\ server_project = EmptyMap
  /\ server_users = EmptyMap
  /\ next_obj = 1
  /\ calls = <<>>
  /\ result = NoResult

EnrichIdle == pc = "idle" /\ EnrichStart(<<>>, [t \in Tenants |-> <<>>])

(***************************************************************************)
(* The host-range expander as a state machine: one call of parse_nodes.    *)
(***************************************************************************)
ExpandInit ==
  /\ nodes \in Expressions
  /\ hosts = NotParsed
  /\ xpc = "start"
  /\ EnrichIdle

ParseNodes ==
  /\ xpc = "start"
  /\ hosts' = parse_nodes(nodes)
  /\ xpc' = IF hosts'.exc = "None" THEN "returned" ELSE "raised"
  /\ UNCHANGED <<nodes, evars>>

ExpandNext == ParseNodes

SpecExpand == ExpandInit /\ [][ExpandNext]_vars

(***************************************************************************)
(* populate_instances_details as a state machine.  The body runs           *)
(* sequentially; a step ends at each call to the identity service, which   *)
(* either returns or raises.  Nothing in the function catches.             *)
(***************************************************************************)
EnrichInit ==
  /\ ExpandIdle
  /\ pc = "for_server"
  /\ \E insts \in SeqsUpTo(Tenants, MaxInstances) :
     \E asg \in [Tenants -> SeqsUpTo(UserIds, MaxAssignments)] :
        EnrichStart(insts, asg)

\* server.tenant_id of the instance the loop is at
tenant_id == instances[idx]

Call(api, id, ok) == [api |-> api, id |-> id, ok |-> ok]

\* ProjectNotCached without the cache: every instance fetches its project
ProjectNotCached_Always(t) == TRUE

\* `server.tenant_id not in projects`
ProjectNotCached(t) == t \notin DOMAIN projects

\* UserNotCached without the cache: every assignment fetches its user
UserNotCached_Always(u) == TRUE

\* `assignment.user["id"] not in users`
UserNotCached(u) == u \notin DOMAIN users

\* ServersAppend that inserts at the front
ServersAppend_Front(list, k) == <<k>> \o list

\* servers.append(server)
ServersAppend(list, k) == Append(list, k)

\* ProjectServersAppend that assigns the list instead of appending to it
ProjectServersAppend_Assign(ps, obj, k) == [ps EXCEPT ![obj] = <<k>>]

\* projects[server.tenant_id].servers.append(server)
ProjectServersAppend(ps, obj, k) == [ps EXCEPT ![obj] = Append(@, k)]

\* KeystoneRaises with the exception caught around the loop: the pass
\* returns the servers processed so far
KeystoneRaises_Swallowed(call) ==
  /\ calls' = Append(calls, call)
  /\ pc' = "done"
  /\ result' = [returned |-> TRUE, value |-> servers]
  /\ UNCHANGED <<instances, ks_assignments, idx, users, projects, servers,
                 project_users, assignments, proj_servers, proj_users,
                 server_project, server_users, next_obj>>

\* an exception raised by an identity-service call leaves the function:
\* there is no try/except, so no statement of the body runs after it
KeystoneRaises(call) ==
  /\ calls' = Append(calls, call)
  /\ pc' = "raised"
  /\ UNCHANGED <<instances, ks_assignments, idx, users, projects, servers,
                 project_users, assignments, proj_servers, proj_users,
                 server_project, server_users, next_obj, result>>

\* keystone.projects.get(server.tenant_id) returns;
\* projects[...].servers = []; project_users = []
ProjectsGet ==
  /\ pc = "for_server"
  /\ idx <= Len(instances)
  /\ ProjectNotCached(tenant_id)
  /\ calls' = Append(calls, Call("projects.get", tenant_id, TRUE))
  /\ projects' = DictSet(projects, tenant_id, next_obj)
  /\ proj_servers' = DictSet(proj_servers, next_obj, <<>>)
  /\ next_obj' = next_obj + 1
  /\ project_users' = <<>>
  /\ pc' = "role_assignments"
  /\ UNCHANGED <<instances, ks_assignments, idx, users, servers, assignments,
                 proj_users, server_project, server_users, result>>

ProjectsGetRaises ==
  /\ pc = "for_server"
  /\ idx <= Len(instances)
  /\ ProjectNotCached(tenant_id)
  /\ KeystoneRaises(Call("projects.get", tenant_id, FALSE))

\* keystone.role_assignments.list(project=server.tenant_id) returns
RoleAssignmentsList ==
  /\ pc = "role_assignments"
  /\ calls' = Append(calls, Call("role_assignments.list", tenant_id, TRUE))
  /\ assignments' = [list |-> ks_assignments[tenant_id], pos |-> 1]
  /\ pc' = "for_assignment"
  /\ UNCHANGED <<instances, ks_assignments, idx, users, projects, servers,
                 project_users, proj_servers, proj_users, server_project,
                 server_users, next_obj, result>>

RoleAssignmentsListRaises ==
  /\ pc = "role_assignments"
  /\ KeystoneRaises(Call("role_assignments.list", tenant_id, FALSE))

\* assignment.user["id"] of the assignment the inner loop is at
user_id == assignments.list[assignments.pos]

\* keystone.users.get(assignment.user["id"]) returns; project_users.append
UsersGet ==
  /\ pc = "for_assignment"
  /\ assignments.pos <= Len(assignments.list)
  /\ UserNotCached(user_id)
  /\ calls' = Append(calls, Call("users.get", user_id, TRUE))
  /\ users' = DictSet(users, user_id, next_obj)
  /\ next_obj' = next_obj + 1
  /\ project_users' = Append(project_users, next_obj)
  /\ assignments' = [assignments EXCEPT !.pos = @ + 1]
  /\ UNCHANGED <<instances, ks_assignments, pc, idx, projects, servers,
                 proj_servers, proj_users, server_project, server_users, result>>

UsersGetRaises ==
  /\ pc = "for_assignment"
  /\ assignments.pos <= Len(assignments.list)
  /\ UserNotCached(user_id)
  /\ KeystoneRaises(Call("users.get", user_id, FALSE))

\* the user is in users already: project_users.append(users[...])
UserCached ==
  /\ pc = "for_assignment"
  /\ assignments.pos <= Len(assignments.list)
  /\ ~UserNotCached(user_id)
  /\ project_users' = Append(project_users, users[user_id])
  /\ assignments' = [assignments EXCEPT !.pos = @ + 1]
  /\ UNCHANGED <<instances, ks_assignments, pc, idx, users, projects, servers,
                 proj_servers, proj_users, server_project, server_users,
                 next_obj, calls, result>>

\* server.project = ...; server.users = ...; both appends; next instance
Attach(pusers) ==
  LET obj == projects[tenant_id]
  IN  /\ server_project' = DictSet(server_project, idx, obj)
      /\ server_users' = DictSet(server_users, idx, pusers[obj])
      /\ proj_servers' = ProjectServersAppend(proj_servers, obj, idx)
      /\ servers' = ServersAppend(servers, idx)
      /\ idx' = idx + 1
      /\ pc' = "for_server"

\* the inner loop is over: projects[...].users = set(project_users), then
\* the rest of the outer loop body
ProjectFetched ==
  /\ pc = "for_assignment"
  /\ assignments.pos > Len(assignments.list)
  /\ proj_users' = DictSet(proj_users, projects[tenant_id],
                           {project_users[n] : n \in 1..Len(project_users)})
  /\ Attach(proj_users')
  /\ UNCHANGED <<instances, ks_assignments, users, projects, project_users,
                 assignments, next_obj, calls, result>>

\* the project is in projects already: the outer loop body after the if
ProjectCached ==
  /\ pc = "for_server"
  /\ idx <= Len(instances)
  /\ ~ProjectNotCached(tenant_id)
  /\ Attach(proj_users)
  /\ UNCHANGED <<instances, ks_assignments, users, projects, project_users,
                 assignments, proj_users, next_obj, calls, result>>

\* the input is exhausted: return servers
Return ==
  /\ pc = "for_server"
  /\ idx > Len(instances)
  /\ result' = [returned |-> TRUE, value |-> servers]
  /\ pc' = "done"
  /\ UNCHANGED <<instances, ks_assignments, idx, users, projects, servers,
                 project_users, assignments, proj_servers, proj_users,
                 server_project, server_users, next_obj, calls>>

EnrichNext ==
  /\ \/ ProjectsGet \/ ProjectsGetRaises
     \/ RoleAssignmentsList \/ RoleAssignmentsListRaises
     \/ UsersGet \/ UsersGetRaises \/ UserCached
     \/ ProjectFetched \/ ProjectCached
     \/ Return
  /\ UNCHANGED xvars

SpecEnrich == EnrichInit /\ [][EnrichNext]_vars

(***************************************************************************)
(* Properties of populate_instances_details.                               *)
(***************************************************************************)
Range(f) == {f[x] : x \in DOMAIN f}

InputTenants == Range(instances)

\* how often the identity service was asked for (api, id)
CallCount(api, id) ==
  Cardinality({k \in 1..Len(calls) : calls[k].api = api /\ calls[k].id = id})

\* the user ids in the role assignments of the projects of the input
AssignedUsers == UNION {Range(ks_assignments[t]) : t \in InputTenants}

\* the instances of tenant t, in input order
TenantServers(t) ==
  SelectSeq([k \in 1..Len(instances) |-> k], LAMBDA k : instances[k] = t)

\* C1: projects.get and role_assignments.list are never called twice for
\* one tenant_id, and in a completed run each is called exactly once for
\* every tenant_id of the input and not at all for any other.
C1_ProjectLookupOncePerTenant ==
  \A t \in Tenants :
    /\ CallCount("projects.get", t) <= 1
    /\ CallCount("role_assignments.list", t) <= 1
    /\ pc = "done" =>
         /\ CallCount("projects.get", t) = (IF t \in InputTenants THEN 1 ELSE 0)
         /\ CallCount("role_assignments.list", t) = (IF t \in InputTenants THEN 1 ELSE 0)

\* a completed run in which two instances share a tenant and a third has another
C1_Witness ==
  /\ pc = "done"
  /\ Cardinality(InputTenants) >= 2
  /\ \E a, b \in 1..Len(instances) : a # b /\ instances[a] = instances[b]

\* C2: in a completed run users.get is called exactly once for every user id
\* that occurs in a role assignment of a visited project, and for no other.
C2_UserLookupOncePerUser ==
  \A u \in UserIds :
    /\ CallCount("users.get", u) <= 1
    /\ pc = "done" =>
         CallCount("users.get", u) = (IF u \in AssignedUsers THEN 1 ELSE 0)

\* a completed run where one user has a role on two visited projects and
\* some user has two roles on one visited project
C2_Witness ==
  /\ pc = "done"
  /\ \E t1, t2 \in InputTenants :
       /\ t1 # t2
       /\ Range(ks_assignments[t1]) \cap Range(ks_assignments[t2]) # {}
  /\ \E t \in InputTenants :
       Len(ks_assignments[t]) > Cardinality(Range(ks_assignments[t]))

\* C3: the sequence returned is the input instances, one per occurrence, in
\* input order.
C3_ResultIsInput ==
  pc = "done" =>
    /\ result.returned
    /\ Len(result.value) = Len(instances)
    /\ result.value = [k \in 1..Len(instances) |-> k]

\* a completed run over an input in which the tenants alternate
C3_Witness ==
  /\ pc = "done"
  /\ Len(instances) >= 3
  /\ instances[1] = instances[3]
  /\ instances[1] # instances[2]

\* C4: after a completed run, instances of one tenant carry the same Project
\* object and users set, and that project's servers are exactly the
\* instances of the tenant, in input order.
C4_SharedProject ==
  pc = "done" =>
    \A a \in 1..Len(instances) :
      /\ proj_servers[server_project[a]] = TenantServers(instances[a])
      /\ \A b \in 1..Len(instances) :
           instances[a] = instances[b] =>
             /\ server_project[a] = server_project[b]
             /\ server_users[a] = server_users[b]

\* a completed run where a project has two servers with one of another
\* tenant between them
C4_Witness ==
  /\ pc = "done"
  /\ \E a, b, c \in 1..Len(instances) :
       /\ a < b /\ b < c
       /\ instances[a] = instances[c]
       /\ instances[a] # instances[b]
       /\ server_project[a] = server_project[c]
       /\ server_project[a] # server_project[b]

\* C5: an identity-service call that fails is the last call of the pass:
\* the pass ends raised, returns nothing, and the call is not made again.
C5_FailurePropagates ==
  \A k \in 1..Len(calls) :
    ~calls[k].ok =>
      /\ k = Len(calls)
      /\ pc = "raised"
      /\ ~result.returned
      /\ CallCount(calls[k].api, calls[k].id) = 1

\* a pass that raised on a user lookup after instances were already
\* processed, with instances still to come
C5_Witness ==
  /\ pc = "raised"
  /\ calls[Len(calls)].api = "users.get"
  /\ servers # <<>>
  /\ idx < Len(instances)
  /\ ~result.returned

(***************************************************************************)
(* Properties of parse_nodes.                                              *)
(***************************************************************************)
Parsed == xpc \in {"returned", "raised"}

Chars(s) == Range(s)

\* s without its leading whitespace
RECURSIVE LStrip(_)
LStrip(s) == IF Len(s) > 0 /\ s[1] \in Space THEN LStrip(Tail(s)) ELSE s

\* bracket nesting depth in front of position i
DepthBefore(s, i) ==
  Cardinality({j \in 1..(i - 1) : s[j] = "["})
    - Cardinality({j \in 1..(i - 1) : s[j] = "]"})

\* every "[" is closed by a "]" before the next "[", and no "]" is stray
WellBracketed(s) ==
  /\ \A i \in 1..(Len(s) + 1) : DepthBefore(s, i) \in {0, 1}
  /\ DepthBefore(s, Len(s) + 1) = 0

\* positions of the commas of s outside any bracket pair / inside one
TopCommas(s) == {i \in 1..Len(s) : s[i] = "," /\ DepthBefore(s, i) = 0}

InnerCommas(s) == {i \in 1..Len(s) : s[i] = "," /\ DepthBefore(s, i) = 1}

\* the pairs <<a, b>> of neighbouring cut positions of s
Gaps(s, cuts) ==
  LET C == cuts \cup {0, Len(s) + 1}
  IN  {g \in C \X C : g[1] < g[2] /\ ~\E m \in C : g[1] < m /\ m < g[2]}

\* the pieces of s between the cut positions, taken literally
PiecesBetween(s, cuts) == {Slice(s, g[1] + 1, g[2] - 1) : g \in Gaps(s, cuts)}

\* the same, without the whitespace that directly follows a cut
PiecesAfterSpace(s, cuts) ==
  {IF g[1] = 0 THEN Slice(s, 1, g[2] - 1)
               ELSE LStrip(Slice(s, g[1] + 1, g[2] - 1)) : g \in Gaps(s, cuts)}

\* the union of the expansions of the pieces
UnionOfExpansions(pieces) ==
  IF \E p \in pieces : parse_nodes(p).exc # "None"
  THEN [exc |-> "ValueError", hosts |-> {}]
  ELSE [exc |-> "None", hosts |-> UNION {parse_nodes(p).hosts : p \in pieces}]

Outcome(r) == [exc |-> r.exc, hosts |-> r.hosts]

\* the integers an item of a bracket spec stands for: n, or lo..hi
ItemValues(item) ==
  LET d == FirstIdx(item, {"-"}, 1)
  IN  IF d = 0 THEN {IntVal(item)}
      ELSE IntVal(Slice(item, 1, d - 1))..IntVal(Slice(item, d + 1, Len(item)))

SpecValues(spec) ==
  UNION {ItemValues(item) : item \in PiecesBetween(spec, {i \in 1..Len(spec) : spec[i] = ","})}

AllPrefixes == Prefixes \cup {Doc_rcc}

\* nodes is prefix[spec]suffix
IsBracketExpr(prefix, spec, suffix) ==
  /\ Len(nodes) = Len(prefix) + Len(spec) + Len(suffix) + 2
  /\ nodes = BracketExpr(prefix, spec, suffix)

\* the middle of nodes, between a prefix and a suffix of these lengths
Middle(prefix, suffix) ==
  Slice(nodes, Len(prefix) + 2, Len(nodes) - Len(suffix) - 1)

AllBracketSpecs == BracketSpecs \cup {<<"0", "1", "-", "0", "3", ",", "0", "7">>}

\* C6 (as claimed): every value of a bracket spec is rendered as a number,
\* without zero padding, from a dash range and from a single number alike.
C6_NumericRendering ==
  Parsed =>
    \A p \in AllPrefixes, sf \in Suffixes :
      LET sp == Middle(p, sf)
      IN  (IsBracketExpr(p, sp, sf) /\ sp \in AllBracketSpecs) =>
            /\ hosts.exc = "None"
            /\ hosts.hosts = {p \o Str(v) \o sf : v \in SpecValues(sp)}

\* an "[" of s that no later "]" closes
UnclosedBracket(s) ==
  \E i \in 1..Len(s) : s[i] = "[" /\ FirstIdx(s, {"]"}, i + 1) = 0

\* C7 (as claimed): empty input and input with an unclosed "[" fail with a
\* ParseError and return nothing.
C7_MalformedRaisesParseError ==
  (Parsed /\ (nodes = <<>> \/ UnclosedBracket(nodes))) =>
    /\ xpc = "raised"
    /\ hosts.exc = "ParseError"
    /\ hosts.hosts = {}

\* C8: prefix[lo-hi]suffix with lo <= hi expands to exactly the hosts
\* prefix v suffix for the integers lo <= v <= hi, hi - lo + 1 of them,
\* and "qh2-rcc[10-12]" to qh2-rcc10, qh2-rcc11, qh2-rcc12.
C8_InclusiveRange ==
  Parsed =>
    /\ \A p \in AllPrefixes, sf \in Suffixes :
         LET sp == Middle(p, sf)
         IN  (IsBracketExpr(p, sp, sf) /\ sp \in DashRanges) =>
               LET d  == FirstIdx(sp, {"-"}, 1)
                   lo == IntVal(Slice(sp, 1, d - 1))
                   hi == IntVal(Slice(sp, d + 1, Len(sp)))
               IN  lo <= hi =>
                     /\ hosts.exc = "None"
                     /\ hosts.hosts = {p \o Str(v) \o sf : v \in lo..hi}
                     /\ Cardinality(hosts.hosts) = hi - lo + 1
    /\ nodes = Doc_range =>
         hosts.hosts = {Doc_rcc \o <<"1", "0">>, Doc_rcc \o <<"1", "1">>,
                        Doc_rcc \o <<"1", "2">>}

\* a range of several values, written with a zero-padded bound, between a
\* prefix that contains a dash and a suffix
C8_Witness ==
  /\ xpc = "returned"
  /\ \E lo \in Numerals, hi \in Numerals :
       /\ IntVal(lo) < IntVal(hi)
       /\ lo[1] = "0" /\ Len(lo) > 1
       /\ nodes = BracketExpr(<<"r", "-">>, lo \o <<"-">> \o hi, <<"b">>)
       /\ Cardinality(hosts.hosts) = IntVal(hi) - IntVal(lo) + 1

\* C9 (as claimed): a well-bracketed expression expands to the union of the
\* expansions of its pieces between the commas outside bracket pairs.
C9_UnionOfPieces ==
  (Parsed /\ WellBracketed(nodes)) =>
    Outcome(hosts) = UnionOfExpansions(PiecesBetween(nodes, TopCommas(nodes)))

\* C9 (amended): a well-bracketed expression expands to the union of the
\* expansions of its pieces, a piece being what stands between two commas
\* outside bracket pairs without the whitespace that follows the first;
\* a comma inside a bracket pair does not split, and with more than one
\* piece the result is a set.
C9_UnionOfPiecesAfterSpace ==
  (Parsed /\ WellBracketed(nodes)) =>
    /\ Outcome(hosts) = UnionOfExpansions(PiecesAfterSpace(nodes, TopCommas(nodes)))
    /\ Len(re_split(nodes)) = Cardinality(TopCommas(nodes)) + 1
    /\ (TopCommas(nodes) # {} /\ xpc = "returned") => hosts.kind = "set"

\* a list whose pieces hold commas inside brackets, are separated by a
\* comma and a space, and expand to a common host
C9_Witness ==
  /\ xpc = "returned"
  /\ WellBracketed(nodes)
  /\ InnerCommas(nodes) # {}
  /\ \E i \in TopCommas(nodes) : i < Len(nodes) /\ nodes[i + 1] \in Space
  /\ \E p, q \in PiecesAfterSpace(nodes, TopCommas(nodes)) :
       p # q /\ parse_nodes(p).hosts \cap parse_nodes(q).hosts # {}

IsLiteral(s) == Chars(s) \cap {"[", "]", ","} = {}

\* C10: a literal hostname h expands to the collection of h alone, and
\* expanding that one element again gives the same result.
C10_LiteralIsFixpoint ==
  (Parsed /\ IsLiteral(nodes)) =>
    /\ xpc = "returned"
    /\ hosts.hosts = {nodes}
    /\ \A h \in hosts.hosts : parse_nodes(h) = hosts

\* a literal with a dash, a digit and whitespace around it
C10_Witness ==
  /\ xpc = "returned"
  /\ IsLiteral(nodes)
  /\ {"-", " "} \subseteq Chars(nodes)
  /\ Chars(nodes) \cap Digits # {}
  /\ nodes[1] \in Space

=============================================================================
